---- MODULE Spec2Model ----
(***************************************************************************)
(* A model of lore_sa/lorem.py (class LOREM): the batch dispatcher         *)
(* explain_set_instances_stable, the stabilized explanation pipeline       *)
(* explain_instance_stable and the two exemplar selectors.                 *)
(*                                                                         *)
(* Three specifications share the module, one per component:               *)
(*   SpecDispatch  explain_set_instances_stable and its worker processes   *)
(*   SpecExplain   explain_instance_stable, step by step                   *)
(*   SpecExemplar  get_exemplars_cexemplars_binary / _supert               *)
(* The variables of the components a specification does not exercise keep  *)
(* their initial values.                                                   *)
(***************************************************************************)
EXTENDS Integers, Sequences, FiniteSets, TLC

VARIABLES
    \* ---- explain_set_instances_stable (lines 472-499)
    X,                 \* the collection of instances handed to the dispatcher
    n_workers,         \* the requested worker count
    items_for_worker,  \* line 475
    start,             \* line 476 / 493
    end,               \* line 478 / 494
    i,                 \* the index of the dispatch loop, line 482
    processes,         \* line 479: the processes created so far
    workers,           \* the local of line 491, Unbound until assigned
    ji,                \* the index of the join loop, line 497
    dpc,               \* where the dispatcher is: dispatch, join, done, raised
    \* ---- the engine's configuration (__init__, lines 68-117)
    dataset,           \* the reference population, raw (self.dataset)
    K,                 \* self.K, lines 85-89
    encdec,            \* TRUE iff an encoder is configured (self.encdec is not None)
    binary,            \* self.binary: "nary" (False) or one of the binary merge modes
    \* ---- the exemplar selectors (lines 356-470) and lines 328-348
    x,                 \* the instance, as the pipeline holds it (encoded when encdec)
    superT,            \* the Merged Tree
    exemplar_num,      \* the requested number of exemplars
    sel,               \* what the selector returned: exemplars_rec, cexemplars_rec
    exp_exemplars,     \* exp.exemplars, line 347
    exp_cexemplars,    \* exp.cexemplars, line 348
    xpc,               \* where the exemplar step is: idle, ready, selected, reported
    \* ---- explain_instance_stable (lines 155-349)
    multi_label,       \* self.multi_label
    discretize,        \* TRUE iff a discretizer is configured
    extreme_fidelity,  \* self.extreme_fidelity
    use_weights,       \* the parameter use_weights
    runs,              \* the parameter runs
    n_jobs,            \* the parameter n_jobs: the threads of the pool of line 255
    tasks,             \* the tasks of line 255-257: their state and their surrogate
    x_in,              \* the instance as the caller passed it
    y,                 \* the local y of line 177, Unbound without an encoder
    Z_sampled,         \* the neighborhoods as multi_generate returned them
    Z_list,            \* the local Z_list (transformed at lines 230-240)
    Yb_list,           \* the local Yb_list
    weights_list,      \* the local weights_list
    Z,                 \* the local Z
    Yb,                \* the local Yb
    weights,           \* the local weights
    dt_list,           \* the per-run trees, line 255
    fits,              \* the calls of learn_local_decision_tree, in order
    calls,             \* the collaborators called so far
    fidelity,          \* the local fidelity
    Yc,                \* the local Yc, line 309
    exp,               \* the Explanation returned
    epc,               \* where the pipeline is
    \* ---- __calculate_weights__ (lines 119-126)
    cw_Z,              \* the argument Z
    Zn,                \* the local Zn of line 121, NoZn when line 124 is taken
    distances,         \* the local distances
    cw_weights,        \* the weights returned, line 126
    cwpc               \* where the call is: idle, called, returned

dvars == <<X, n_workers, items_for_worker, start, end, i, processes, workers, ji, dpc>>

cvars == <<dataset, K, encdec, binary>>

xvars == <<x, superT, exemplar_num, sel, exp_exemplars, exp_cexemplars, xpc>>

evars == <<n_jobs, tasks,
           multi_label, discretize, extreme_fidelity, use_weights, runs, x_in, y,
           Z_sampled, Z_list, Yb_list, weights_list, Z, Yb, weights, dt_list, fits,
           calls, fidelity, Yc, exp, epc>>

wvars == <<cw_Z, Zn, distances, cw_weights, cwpc>>

vars == <<dvars, cvars, xvars, evars, wvars>>

\* What the dispatcher's steps leave alone.
nondvars == <<cvars, xvars, evars, wvars>>

\* What the exemplar step leaves alone.
nonxvars == <<dvars, evars, wvars>>

(***************************************************************************)
(* Bounds of the model.                                                    *)
(***************************************************************************)
MaxN == 5        \* the largest collection handed to the dispatcher
MaxW == 4        \* the largest worker count
MaxVal == 1      \* feature values are 0..MaxVal
MaxK == 3        \* the largest reference population
MaxNum == 3      \* the largest requested exemplar count
MaxRuns == 2     \* the largest number of runs
MaxJobs == 2     \* the largest pool of threads
MaxZ == 2        \* the entries of a Z handed to __calculate_weights__ are 0..MaxZ

(***************************************************************************)
(* Helpers.                                                                *)
(***************************************************************************)
Min(a, b) == IF a <= b THEN a ELSE b

\* A Python local that no assignment has bound yet.
Unbound == -1

\* math.ceil(len(X) / float(n_workers)), line 475
CeilDiv(a, b) == (a + b - 1) \div b

\* Python's X[s:e] on a sequence (0-based, end exclusive, clipped to len(X)).
Slice(S, s, e) == SubSeq(S, Min(s, Len(S)) + 1, Min(e, Len(S)))

\* The break test with its bound off by one (end > len(X)): a variant that C2
\* tells from the code's.
BreakOffByOne(e, n) == e > n

\* The break test of line 490.
StopDispatch(e, n) == e > (n - 1)

\* The join loop's range(0, workers), line 497: the loop goes on while k < w.
JoinRange(k, w) == k < w

RECURSIVE ConcatAll(_)
ConcatAll(ss) == IF ss = <<>> THEN <<>> ELSE Head(ss) \o ConcatAll(Tail(ss))

(***************************************************************************)
(* Records, the encoder and the trees.                                     *)
(***************************************************************************)
Values == 0..MaxVal

\* A record has two features.
Features == {1, 2}

Records == {<<a, b>> : a \in Values, b \in Values}

Labels == {0, 1}

\* self.binary: False is the n-ary default.
Modes == {"nary", "binary_from_bb", "binary_from_dts", "binary_from_nari"}

\* `if self.binary:` (line 328): every mode but the n-ary default is truthy.
IsBinary(mode) == mode # "nary"

\* encdec.enc on one value: a recoding of the value that is not the identity.
EncVal(v) == (v + 1) % (MaxVal + 1)

\* encdec.dec on one value: the inverse recoding.
DecVal(v) == (v + MaxVal) % (MaxVal + 1)

Enc(r) == <<EncVal(r[1]), EncVal(r[2])>>

Dec(r) == <<DecVal(r[1]), DecVal(r[2])>>

EncSeq(rs) == [k \in 1..Len(rs) |-> Enc(rs[k])]

DecSeq(rs) == [k \in 1..Len(rs) |-> Dec(rs[k])]

\* A fitted tree: one split, feature feat at threshold thr, and the class of
\* each of its two leaves. A split at thr = MaxVal leaves the second leaf empty.
\* The surrogate provider is a collaborator: which tree a fit or a merge
\* returns is its choice, so every step that obtains a tree takes any of Trees.
Trees == [feat : Features, thr : Values, lab : [1..2 -> Labels]]

\* dt.apply(r): the leaf of the record.
Apply(dt, r) == IF r[dt.feat] <= dt.thr THEN 1 ELSE 2

\* dt.predict(r): the class of the record's leaf.
Predict(dt, r) == dt.lab[Apply(dt, r)]

\* The rows of rs in the order of their values. Neither selector depends on
\* the order of the rows of the population (equal distances are returned in any
\* order), so populations are enumerated up to the order of their rows.
Ordered(rs) ==
    \A a, b \in 1..Len(rs) :
        a < b => rs[a][1] * (MaxVal + 1) + rs[a][2] <= rs[b][1] * (MaxVal + 1) + rs[b][2]

\* Every sequence over S of length at most n.
SeqsUpTo(S, n) == UNION {[1..m -> S] : m \in 0..n}

(***************************************************************************)
(* The engine's configuration when a specification does not use it.        *)
(***************************************************************************)
EngineIdle ==
    /\ dataset = <<>>
    /\ K = <<>>
    /\ encdec = FALSE
    /\ binary = "nary"

(***************************************************************************)
(* The exemplar selectors                                                  *)
(***************************************************************************)
\* cdist(x, vals, metric='euclidean') orders the rows as the squared distance does.
SqDist(a, b) == (a[1] - b[1]) * (a[1] - b[1]) + (a[2] - b[2]) * (a[2] - b[2])

Distances(xx, vals) == [k \in 1..Len(vals) |-> SqDist(xx, vals[k])]

\* distance.argsort(): an ordering of the indices by ascending distance. numpy
\* does not fix the order of equal distances, so every such ordering is possible.
Argsort(d) ==
    {p \in Permutations(1..Len(d)) :
        \A a, b \in 1..Len(d) : a < b => d[p[a]] <= d[p[b]]}

\* vals[order[:n]]
TakeFirst(vals, order, n) == [k \in 1..Min(n, Len(vals)) |-> vals[order[k]]]

\* The reference population the tree is applied to, lines 357-364 and 421-427.
Population == IF encdec THEN EncSeq(dataset) ELSE K

\* np.where(leave_id_K == leave_id_x), lines 367-371 and 433-439.
ExemplarVals(pop, dt, xx) ==
    LET Same(r) == Apply(dt, r) = Apply(dt, xx) IN SelectSeq(pop, Same)

\* np.where(leave_id_K != leave_id_x), lines 373-377 and 440-445.
CexemplarVals(pop, dt, xx) ==
    LET Other(r) == Apply(dt, r) # Apply(dt, xx) IN SelectSeq(pop, Other)

\* `x in exemplar_vals` on a numpy array: some element equals x's at its column.
XIn(xx, vals) == \E k \in 1..Len(vals) : \E f \in Features : vals[k][f] = xx[f]

\* The exemplars with x left among them: a variant that C7 tells from the code's.
KeepAll(vals, xx) == vals

\* Lines 380-384 and 448-454: delete the rows equal to x on every feature.
RemoveX(vals, xx) ==
    LET NotX(r) == ~(\A f \in Features : r[f] = xx[f])
    IN  IF XIn(xx, vals) THEN SelectSeq(vals, NotX) ELSE vals

\* A returned set: None, or the rows.
Absent == [absent |-> TRUE, rows |-> <<>>]

Rows(rs) == [absent |-> FALSE, rows |-> rs]

\* get_exemplars_cexemplars_binary, lines 386-418. The else of line 396 takes
\* every case in which the exemplars are not empty, so lines 404-418 never run.
SelectBinary(pop, dt, xx, n) ==
    LET ex  == RemoveX(ExemplarVals(pop, dt, xx), xx)
        cex == CexemplarVals(pop, dt, xx)
    IN  IF Len(ex) = 0 /\ Len(cex) = 0
        THEN {[ex |-> Absent, cex |-> Absent]}
        ELSE IF Len(ex) = 0
        THEN {[ex |-> Absent, cex |-> Rows(TakeFirst(cex, p, Len(cex)))] :
                 p \in Argsort(Distances(xx, cex))}
        ELSE {[ex |-> Rows(TakeFirst(ex, p, Len(ex))), cex |-> Absent] :
                 p \in Argsort(Distances(xx, ex))}

\* The symmetric cap of lines 459-463.
Cap(n, a, b) == IF a < n \/ b < n THEN Min(a, b) ELSE n

\* get_exemplars_cexemplars_supert, lines 456-470.
SelectSupert(pop, dt, xx, n) ==
    LET ex  == RemoveX(ExemplarVals(pop, dt, xx), xx)
        cex == CexemplarVals(pop, dt, xx)
        m   == Cap(n, Len(ex), Len(cex))
    IN  {[ex |-> Rows(TakeFirst(ex, p, m)), cex |-> Rows(TakeFirst(cex, q, m))] :
            p \in Argsort(Distances(xx, ex)), q \in Argsort(Distances(xx, cex))}

\* Lines 328-333: the selector the mode calls.
Select(mode, pop, dt, xx, n) ==
    IF IsBinary(mode) THEN SelectBinary(pop, dt, xx, n) ELSE SelectSupert(pop, dt, xx, n)

\* Lines 336-344: 'None' for None, else get_exemplars_str of the rows.
ExemplarsStr(r) == IF r.absent THEN [none |-> TRUE, text |-> <<>>]
                               ELSE [none |-> FALSE, text |-> r.rows]

NoSel == [ex |-> Absent, cex |-> Absent]

NoStr == [none |-> FALSE, text |-> <<>>]

ExemplarIdle ==
    /\ x = <<0, 0>>
    /\ superT = [feat |-> 1, thr |-> 0, lab |-> <<0, 0>>]
    /\ exemplar_num = 0
    /\ sel = NoSel
    /\ exp_exemplars = NoStr
    /\ exp_cexemplars = NoStr
    /\ xpc = "idle"

\* The engine as __init__ leaves it (lines 84-89), and a call of a selector
\* with a Merged Tree, the instance (encoded when an encoder is configured) and
\* the requested count.
ExemplarInit ==
    /\ dataset \in {d \in SeqsUpTo(Records, MaxK) \ {<<>>} : Ordered(d)}
    /\ encdec \in BOOLEAN
    /\ K = IF encdec THEN EncSeq(dataset) ELSE dataset
    /\ binary \in Modes
    /\ x \in Records
    /\ superT \in {t \in Trees : t.lab = <<0, 1>>}
    /\ exemplar_num \in 1..MaxNum
    /\ sel = NoSel
    /\ exp_exemplars = NoStr
    /\ exp_cexemplars = NoStr
    /\ xpc = "ready"

\* Lines 328-333: the call of the selector.
CallSelector ==
    /\ xpc = "ready"
    /\ sel' \in Select(binary, Population, superT, x, exemplar_num)
    /\ xpc' = "selected"
    /\ UNCHANGED <<x, superT, exemplar_num, exp_exemplars, exp_cexemplars>>
    /\ UNCHANGED <<cvars, nonxvars>>

\* Lines 336-348: the two sets as the Explanation reports them.
ReportExemplars ==
    /\ xpc = "selected"
    /\ exp_exemplars' = ExemplarsStr(sel.ex)
    /\ exp_cexemplars' = ExemplarsStr(sel.cex)
    /\ xpc' = "reported"
    /\ UNCHANGED <<x, superT, exemplar_num, sel>>
    /\ UNCHANGED <<cvars, nonxvars>>

ExemplarNext ==
    \/ CallSelector
    \/ ReportExemplars

(***************************************************************************)
(* The collaborators of explain_instance_stable.                           *)
(***************************************************************************)
\* bb.predict on one record: a fixed deterministic classifier.
BBPredict(r) == (r[1] + r[2]) % 2

BBSeq(rs) == [k \in 1..Len(rs) |-> BBPredict(rs[k])]

PredictSeq(dt, rs) == [k \in 1..Len(rs) |-> Predict(dt, rs[k])]

\* discr.transform on one value: bins of width two.
DiscVal(v) == v \div 2

DiscSeq(rs) == [k \in 1..Len(rs) |-> <<DiscVal(rs[k][1]), DiscVal(rs[k][2])>>]

\* neigh_gen.multi_generate: each neighborhood is the anchor and one sampled record.
Neighborhoods(xx) == {<<xx, r>> : r \in Records}

(***************************************************************************)
(* __calculate_weights__ (lines 119-126) and the weighted score.           *)
(***************************************************************************)
Flat(Zm) == {Zm[k][f] : k \in 1..Len(Zm), f \in Features}

MaxOf(Zm) == CHOOSE m \in Flat(Zm) : \A v \in Flat(Zm) : v <= m

MinOf(Zm) == CHOOSE m \in Flat(Zm) : \A v \in Flat(Zm) : m <= v

\* The test of line 120: Z is min-max normalized when it holds.
Normalizes(Zm) == MaxOf(Zm) # 1 /\ MinOf(Zm) # 0

\* The divisor of line 121, or 1 when Z is used as it is (line 124).
Span(Zm) == IF Normalizes(Zm) THEN MaxOf(Zm) - MinOf(Zm) ELSE 1

\* The largest entry of a matrix that __calculate_weights__ is called on.
MaxEntry == IF MaxZ > MaxVal THEN MaxZ ELSE MaxVal

\* The largest squared distance between two records.
DMax == 2 * MaxEntry * MaxEntry

\* The distance of row k to row 0 (the anchor) as the fraction num/den: the
\* squared distance of the rows over the square of the divisor. 0/0 is nan.
WeightDistance(Zm, k) == <<SqDist(Zm[k], Zm[1]), Span(Zm) * Span(Zm)>>

\* self.kernel on a distance num/den, as a fraction: 1 at distance 0, positive
\* and strictly decreasing in the distance, as sqrt(exp(-d^2/width^2)) is.
Kernel(d) == <<(DMax + 1) * d[2] - d[1], (DMax + 1) * d[2]>>

NoneW == [none |-> TRUE, nan |-> FALSE, w |-> <<>>]

CalculateWeights(Zm) ==
    [none |-> FALSE,
     nan  |-> Span(Zm) = 0,
     w    |-> [k \in 1..Len(Zm) |-> Kernel(WeightDistance(Zm, k))]]

\* Line 121, Zn = (Z - np.min(Z)) / (np.max(Z) - np.min(Z)): every entry as the
\* fraction num/den. 0/0 is nan.
MinMax(Zm) ==
    [k \in 1..Len(Zm) |->
        [f \in Features |-> <<Zm[k][f] - MinOf(Zm), MaxOf(Zm) - MinOf(Zm)>>]]

\* The matrices __calculate_weights__ is called on here: the anchor (row 0) and
\* one more record, with entries beyond the range 0..1.
Matrices == LET R == {<<a, b>> : a \in 0..MaxZ, b \in 0..MaxZ}
            IN  {<<r0, r1>> : r0 \in R, r1 \in R}

\* The local Zn that line 121 has not bound.
NoZn == <<>>

WeightsIdle ==
    /\ cw_Z = <<>>
    /\ Zn = NoZn
    /\ distances = <<>>
    /\ cw_weights = NoneW
    /\ cwpc = "idle"

\* A call of __calculate_weights__ on a matrix Z.
WeightsInit ==
    /\ cw_Z \in Matrices
    /\ Zn = NoZn
    /\ distances = <<>>
    /\ cw_weights = NoneW
    /\ cwpc = "called"

\* Lines 119-126: the test of line 120, the distances to row 0 of the
\* normalized matrix (line 122) or of Z as it is (line 124), the kernel's
\* weights, and the return.
CalculateWeightsCall ==
    /\ cwpc = "called"
    /\ Zn' = IF Normalizes(cw_Z) THEN MinMax(cw_Z) ELSE NoZn
    /\ distances' = [k \in 1..Len(cw_Z) |-> WeightDistance(cw_Z, k)]
    /\ cw_weights' = CalculateWeights(cw_Z)
    /\ cwpc' = "returned"
    /\ UNCHANGED cw_Z
    /\ UNCHANGED <<dvars, cvars, xvars, evars>>

WeightsNext == CalculateWeightsCall

\* `None if not use_weights else self.__calculate_weights__(Z, metric)`
WeightsOf(Zm, uw) == IF uw THEN CalculateWeights(Zm) ELSE NoneW

\* np.concatenate(weights_list), line 285, of weight vectors that are not None.
ConcatW(ws) ==
    [none |-> FALSE,
     nan  |-> \E k \in 1..Len(ws) : ws[k].nan,
     w    |-> ConcatAll([k \in 1..Len(ws) |-> ws[k].w])]

RECURSIVE SetProduct(_)
SetProduct(S) == IF S = {} THEN 1
                 ELSE LET e == CHOOSE e \in S : TRUE IN e * SetProduct(S \ {e})

RECURSIVE SumTo(_, _)
SumTo(f, n) == IF n = 0 THEN 0 ELSE f[n] + SumTo(f, n - 1)

Agree(dt, Zm, Yl) == [k \in 1..Len(Zm) |-> IF Predict(dt, Zm[k]) = Yl[k] THEN 1 ELSE 0]

\* The fidelity that is nan.
NaN == <<0, 0>>

\* accuracy_score(Yl, dt.predict(Zm)), line 299: a fraction.
Accuracy(dt, Zm, Yl) == <<SumTo(Agree(dt, Zm, Yl), Len(Zm)), Len(Zm)>>

\* dt.score(Zm, Yl, sample_weight=wt), lines 247, 268, 296: the weighted share
\* of the records the tree predicts as Yl, a fraction.
Score(dt, Zm, Yl, wt) ==
    IF wt.none THEN Accuracy(dt, Zm, Yl)
    ELSE IF wt.nan THEN NaN
    ELSE LET D  == SetProduct({wt.w[k][2] : k \in 1..Len(Zm)})
             sc == [k \in 1..Len(Zm) |-> wt.w[k][1] * (D \div wt.w[k][2])]
             ag == Agree(dt, Zm, Yl)
         IN  <<SumTo([k \in 1..Len(Zm) |-> sc[k] * ag[k]], Len(Zm)), SumTo(sc, Len(Zm))>>

\* fidelity == 1.0
IsOne(f) == f[2] > 0 /\ f[1] = f[2]

(***************************************************************************)
(* explain_instance_stable                                                 *)
(***************************************************************************)
NoTree == [fitted |-> FALSE, data |-> <<>>, labels |-> <<>>]

\* The object self.surrogate of line 76: the one surrogate provider the engine
\* was built with.
SelfSurrogate == "self.surrogate"

\* No object: a task that has not been handed to a thread holds none.
NoObject == "none"

\* Line 254, dt_list = [self.surrogate for i in range(runs)]: the object in
\* every slot of the list is self.surrogate itself, not a copy of it.
SurrogateList(n) == [k \in 1..n |-> SelfSurrogate]

\* A task of line 255 that the pool has not started.
NoTask == [state |-> "pending", t |-> NoObject]

NoExp == [made |-> FALSE, bb_pred |-> 0, dt_pred |-> 0, fidelity |-> NaN,
          dt |-> [feat |-> 1, thr |-> 0, lab |-> <<0, 0>>]]

ExplainIdle ==
    /\ multi_label = FALSE
    /\ discretize = FALSE
    /\ extreme_fidelity = FALSE
    /\ use_weights = FALSE
    /\ runs = 1
    /\ n_jobs = 1
    /\ tasks = <<>>
    /\ x_in = <<0, 0>>
    /\ y = Unbound
    /\ Z_sampled = <<>>
    /\ Z_list = <<>>
    /\ Yb_list = <<>>
    /\ weights_list = <<>>
    /\ Z = <<>>
    /\ Yb = <<>>
    /\ weights = NoneW
    /\ dt_list = <<>>
    /\ fits = <<>>
    /\ calls = {}
    /\ fidelity = NaN
    /\ Yc = <<>>
    /\ exp = NoExp
    /\ epc = "idle"

\* The engine as __init__ leaves it and a call of explain_instance_stable
\* (single = False, the default) with an instance and a number of runs.
ExplainInit ==
    /\ multi_label \in BOOLEAN
    /\ encdec \in BOOLEAN
    /\ discretize \in BOOLEAN
    /\ extreme_fidelity \in BOOLEAN
    /\ use_weights \in BOOLEAN
    /\ binary \in Modes
    /\ runs \in 1..MaxRuns
    /\ n_jobs \in 1..MaxJobs
    /\ tasks = [k \in 1..runs |-> NoTask]
    /\ x_in \in Records
    /\ dataset = <<<<0, 0>>, <<MaxVal, MaxVal>>>>
    /\ K = IF encdec THEN EncSeq(dataset) ELSE dataset
    /\ x = x_in
    /\ superT = NoExp.dt
    /\ exemplar_num = 1
    /\ sel = NoSel
    /\ exp_exemplars = NoStr
    /\ exp_cexemplars = NoStr
    /\ xpc = "idle"
    /\ y = Unbound
    /\ Z_sampled = <<>>
    /\ Z_list = <<>>
    /\ Yb_list = <<>>
    /\ weights_list = <<>>
    /\ Z = <<>>
    /\ Yb = <<>>
    /\ weights = NoneW
    /\ dt_list = [k \in 1..runs |-> NoTree]
    /\ fits = <<>>
    /\ calls = {}
    /\ fidelity = NaN
    /\ Yc = <<>>
    /\ exp = NoExp
    /\ epc = "start"

\* The multi-label test left out: a variant that C5 tells from the code's.
NeverNotImplemented(ml) == FALSE

\* The test of line 172.
NotImplemented(ml) == ml

\* Lines 172-178: the multi-label check, then the encoding of the instance.
Start ==
    /\ epc = "start"
    /\ IF NotImplemented(multi_label)
       THEN /\ epc' = "raised"
            /\ UNCHANGED <<x, y, calls>>
       ELSE /\ epc' = "encoded"
            /\ IF encdec
               THEN /\ y' = BBPredict(x)
                    /\ x' = Enc(x)
                    /\ calls' = calls \cup {"bb", "encdec"}
               ELSE UNCHANGED <<x, y, calls>>
    /\ UNCHANGED <<n_jobs, tasks>>
    /\ UNCHANGED <<multi_label, discretize, extreme_fidelity, use_weights, runs, x_in,
                   Z_sampled, Z_list, Yb_list, weights_list, Z, Yb, weights, dt_list,
                   fits, fidelity, Yc, exp>>
    /\ UNCHANGED <<superT, exemplar_num, sel, exp_exemplars, exp_cexemplars, xpc>>
    /\ UNCHANGED <<cvars, dvars, wvars>>

\* Line 180: the sampler returns runs neighborhoods of the instance.
Sample ==
    /\ epc = "encoded"
    /\ Z_list' \in [1..runs -> Neighborhoods(x)]
    /\ Z_sampled' = Z_list'
    /\ calls' = calls \cup {"neigh_gen"}
    /\ epc' = "sampled"
    /\ UNCHANGED <<n_jobs, tasks>>
    /\ UNCHANGED <<multi_label, discretize, extreme_fidelity, use_weights, runs, x_in, y,
                   Yb_list, weights_list, Z, Yb, weights, dt_list, fits, fidelity, Yc, exp>>
    /\ UNCHANGED <<xvars, cvars, dvars, wvars>>

\* Lines 182-220: the black-box labels of every neighborhood (decoded first
\* when an encoder is configured), then its weights. The loops leave Z, Yb and
\* weights bound to the last run's.
LabelAndWeigh ==
    /\ epc = "sampled"
    /\ Yb_list' = [k \in 1..runs |->
                     BBSeq(IF encdec THEN DecSeq(Z_list[k]) ELSE Z_list[k])]
    /\ weights_list' = [k \in 1..runs |-> WeightsOf(Z_list[k], use_weights)]
    /\ Z' = Z_list[runs]
    /\ Yb' = Yb_list'[runs]
    /\ weights' = weights_list'[runs]
    /\ calls' = calls \cup (IF encdec THEN {"bb", "encdec"} ELSE {"bb"})
    /\ epc' = "weighted"
    /\ UNCHANGED <<n_jobs, tasks>>
    /\ UNCHANGED <<multi_label, discretize, extreme_fidelity, use_weights, runs, x_in, y,
                   Z_sampled, Z_list, dt_list, fits, fidelity, Yc, exp>>
    /\ UNCHANGED <<xvars, cvars, dvars, wvars>>

\* Lines 226-240: with a discretizer, Z and Yb become the pooled data and
\* labels and every neighborhood is transformed; without one nothing changes.
Discretize ==
    /\ epc = "weighted"
    /\ IF discretize
       THEN /\ Z' = ConcatAll(Z_list)
            /\ Yb' = ConcatAll(Yb_list)
            /\ Z_list' = [k \in 1..runs |-> DiscSeq(Z_list[k])]
            /\ calls' = calls \cup {"discretizer"}
       ELSE UNCHANGED <<Z, Yb, Z_list, calls>>
    /\ epc' = IF binary = "binary_from_bb" THEN "pooling" ELSE "fitting"
    /\ UNCHANGED <<n_jobs, tasks>>
    /\ UNCHANGED <<multi_label, discretize, extreme_fidelity, use_weights, runs, x_in, y,
                   Z_sampled, Yb_list, weights_list, weights, dt_list, fits, fidelity,
                   Yc, exp>>
    /\ UNCHANGED <<xvars, cvars, dvars, wvars>>

\* A call of learn_local_decision_tree, as the log of fits records it.
FitCall(kind, data, labels) == [kind |-> kind, data |-> data, labels |-> labels]

\* Lines 243-247, binary_from_bb: one tree is fit on the locals Z and Yb as the
\* earlier steps left them, and scored on them. A fit on nan weights raises.
FitFromBB ==
    /\ epc = "pooling"
    /\ LET w == WeightsOf(Z, use_weights)
       IN  IF w.nan
           THEN /\ epc' = "raised"
                /\ calls' = calls \cup {"surrogate"}
                /\ UNCHANGED <<weights, superT, fits, fidelity>>
           ELSE /\ \E t \in Trees :
                     /\ superT' = t
                     /\ fidelity' = Score(t, Z, Yb, w)
                /\ weights' = w
                /\ fits' = Append(fits, FitCall("pooled", Z, Yb))
                /\ calls' = calls \cup {"surrogate"}
                /\ epc' = "merged"
    /\ UNCHANGED <<n_jobs, tasks>>
    /\ UNCHANGED <<multi_label, discretize, extreme_fidelity, use_weights, runs, x_in, y,
                   Z_sampled, Z_list, Yb_list, weights_list, Z, Yb, dt_list, Yc, exp>>
    /\ UNCHANGED <<x, exemplar_num, sel, exp_exemplars, exp_cexemplars, xpc>>
    /\ UNCHANGED <<cvars, dvars, wvars>>

\* The tasks that a thread of the pool is running.
Running == {k \in 1..runs : tasks[k].state = "running"}

\* Lines 255-257: a free thread of the pool takes the task of run k, the k-th
\* tuple of zip(Z_list, Yb_list, weights_list, dt_list), and enters
\* t.learn_local_decision_tree with t the k-th object of the list of line 254.
\* At most n_jobs tasks run at a time.
StartFit(k) ==
    /\ epc = "fitting"
    /\ k \in 1..runs
    /\ tasks[k].state = "pending"
    /\ Cardinality(Running) < n_jobs
    /\ tasks' = [tasks EXCEPT ![k] = [state |-> "running", t |-> SurrogateList(runs)[k]]]
    /\ UNCHANGED <<n_jobs, multi_label, discretize, extreme_fidelity, use_weights, runs,
                   x_in, y, Z_sampled, Z_list, Yb_list, weights_list, Z, Yb, weights,
                   dt_list, fits, calls, fidelity, Yc, exp, epc>>
    /\ UNCHANGED <<xvars, cvars, dvars, wvars>>

\* Lines 254-257: the task of run k returns, in its thread: a tree is fit on
\* the run's neighborhood, labels and weights, and the pool stores it at
\* position k of the list of results. The tasks return in any order.
FitRun(k) ==
    /\ epc = "fitting"
    /\ k \in 1..runs
    /\ tasks[k].state = "running"
    /\ tasks' = [tasks EXCEPT ![k].state = "done"]
    /\ ~dt_list[k].fitted
    /\ calls' = calls \cup {"surrogate"}
    /\ IF weights_list[k].nan
       THEN /\ epc' = "raised"
            /\ UNCHANGED <<dt_list, fits>>
       ELSE /\ dt_list' = [dt_list EXCEPT ![k] =
                              [fitted |-> TRUE, data |-> Z_list[k], labels |-> Yb_list[k]]]
            /\ fits' = Append(fits, FitCall("run", Z_list[k], Yb_list[k]))
            /\ UNCHANGED epc
    /\ UNCHANGED n_jobs
    /\ UNCHANGED <<multi_label, discretize, extreme_fidelity, use_weights, runs, x_in, y,
                   Z_sampled, Z_list, Yb_list, weights_list, Z, Yb, weights, fidelity,
                   Yc, exp>>
    /\ UNCHANGED <<xvars, cvars, dvars, wvars>>

AllFitted == \A k \in 1..runs : dt_list[k].fitted

\* Lines 259-268, binary_from_dts: the data and labels of all runs are pooled
\* and one fresh tree is fit and scored on them.
MergeFromDts ==
    /\ epc = "fitting"
    /\ AllFitted
    /\ binary = "binary_from_dts"
    /\ Z' = ConcatAll(Z_list)
    /\ Yb' = ConcatAll(Yb_list)
    /\ calls' = calls \cup {"surrogate"}
    /\ LET w == WeightsOf(Z', use_weights)
       IN  IF w.nan
           THEN /\ epc' = "raised"
                /\ UNCHANGED <<weights, superT, fits, fidelity>>
           ELSE /\ \E t \in Trees :
                     /\ superT' = t
                     /\ fidelity' = Score(t, Z', Yb', w)
                /\ weights' = w
                /\ fits' = Append(fits, FitCall("pooled", Z', Yb'))
                /\ epc' = "merged"
    /\ UNCHANGED <<n_jobs, tasks>>
    /\ UNCHANGED <<multi_label, discretize, extreme_fidelity, use_weights, runs, x_in, y,
                   Z_sampled, Z_list, Yb_list, weights_list, dt_list, Yc, exp>>
    /\ UNCHANGED <<x, exemplar_num, sel, exp_exemplars, exp_cexemplars, xpc>>
    /\ UNCHANGED <<cvars, dvars, wvars>>

\* The test of lines 301-304 on the merged tree t: res != y, where y is bound
\* only when an encoder is configured (line 177).
ExtremeRaises(t) == extreme_fidelity /\ (y = Unbound \/ Predict(t, x) # y)

\* Lines 259-261 and 272-304, the n-ary default and binary_from_nari: the
\* per-run trees are pruned and merged, the weights of the runs recomputed and
\* concatenated (np.concatenate raises on a list of None), the fidelity
\* computed, and the extreme-fidelity check made.
MergeNary ==
    /\ epc = "fitting"
    /\ AllFitted
    /\ binary \in {"nary", "binary_from_nari"}
    /\ Z' = ConcatAll(Z_list)
    /\ calls' = calls \cup {"surrogate"}
    /\ weights_list' = [k \in 1..runs |-> WeightsOf(Z_list[k], use_weights)]
    /\ IF ~use_weights
       THEN /\ epc' = "raised"
            /\ Yb' = ConcatAll(Yb_list)
            /\ weights' = weights_list'[runs]
            /\ UNCHANGED <<superT, fidelity>>
       ELSE /\ weights' = ConcatW(weights_list')
            /\ \E t \in Trees :
                  /\ superT' = t
                  /\ IF binary = "binary_from_nari"
                     THEN /\ Yb' = PredictSeq(t, Z')
                          /\ fidelity' = Score(t, Z', Yb', weights')
                     ELSE /\ Yb' = ConcatAll(Yb_list)
                          /\ fidelity' = Accuracy(t, Z', Yb')
                  /\ epc' = IF ExtremeRaises(t) THEN "raised" ELSE "merged"
    /\ UNCHANGED <<n_jobs, tasks>>
    /\ UNCHANGED <<multi_label, discretize, extreme_fidelity, use_weights, runs, x_in, y,
                   Z_sampled, Z_list, Yb_list, dt_list, fits, Yc, exp>>
    /\ UNCHANGED <<x, exemplar_num, sel, exp_exemplars, exp_cexemplars, xpc>>
    /\ UNCHANGED <<cvars, dvars, wvars>>

\* Lines 308-316: the tree's labels of Z and the rules of the rule extractor.
ExtractRules ==
    /\ epc = "merged"
    /\ Yc' = PredictSeq(superT, Z)
    /\ calls' = calls \cup {"bb", "rule"}
    /\ epc' = "ruled"
    /\ UNCHANGED <<n_jobs, tasks>>
    /\ UNCHANGED <<multi_label, discretize, extreme_fidelity, use_weights, runs, x_in, y,
                   Z_sampled, Z_list, Yb_list, weights_list, Z, Yb, weights, dt_list,
                   fits, fidelity, exp>>
    /\ UNCHANGED <<xvars, cvars, dvars, wvars>>

\* Lines 319-349: the Explanation is assembled, with the exemplars of the
\* selector of the mode, and returned.
Assemble ==
    /\ epc = "ruled"
    /\ exp' = [made |-> TRUE, bb_pred |-> Yb[1], dt_pred |-> Yc[1],
               fidelity |-> fidelity, dt |-> superT]
    /\ sel' \in Select(binary, Population, superT, x, exemplar_num)
    /\ exp_exemplars' = ExemplarsStr(sel'.ex)
    /\ exp_cexemplars' = ExemplarsStr(sel'.cex)
    /\ epc' = "done"
    /\ UNCHANGED <<n_jobs, tasks>>
    /\ UNCHANGED <<multi_label, discretize, extreme_fidelity, use_weights, runs, x_in, y,
                   Z_sampled, Z_list, Yb_list, weights_list, Z, Yb, weights, dt_list,
                   fits, calls, fidelity, Yc>>
    /\ UNCHANGED <<x, superT, exemplar_num, xpc>>
    /\ UNCHANGED <<cvars, dvars, wvars>>

ExplainNext ==
    \/ Start
    \/ Sample
    \/ LabelAndWeigh
    \/ Discretize
    \/ FitFromBB
    \/ \E k \in 1..MaxRuns : StartFit(k)
    \/ \E k \in 1..MaxRuns : FitRun(k)
    \/ MergeFromDts
    \/ MergeNary
    \/ ExtractRules
    \/ Assemble

(***************************************************************************)
(* explain_set_instances_stable                                            *)
(***************************************************************************)
DispatchInit ==
    /\ \E n \in 1..MaxN : X = [k \in 1..n |-> k]
    /\ n_workers \in 1..MaxW
    /\ items_for_worker = CeilDiv(Len(X), n_workers)
    /\ start = 0
    /\ end = items_for_worker
    /\ i = 0
    /\ processes = <<>>
    /\ workers = Unbound
    /\ ji = 0
    /\ dpc = "dispatch"

\* One iteration of the loop of lines 482-494: create and start process i on
\* X[start:end]; break with workers = n_workers - 1 when end > len(X) - 1.
Spawn ==
    /\ dpc = "dispatch"
    /\ i < n_workers
    /\ processes' = Append(processes,
                       [index |-> i, dataset |-> Slice(X, start, end),
                        state |-> "running", out |-> <<>>, joined |-> FALSE])
    /\ IF StopDispatch(end, Len(X))
       THEN /\ workers' = n_workers - 1
            /\ dpc' = "join"
            /\ UNCHANGED <<start, end, i>>
       ELSE /\ start' = end
            /\ end' = end + items_for_worker
            /\ i' = i + 1
            /\ dpc' = IF i + 1 < n_workers THEN "dispatch" ELSE "join"
            /\ UNCHANGED workers
    /\ UNCHANGED <<X, n_workers, items_for_worker, ji>>
    /\ UNCHANGED nondvars

\* explain_workers_stable (lines 501-517) in process k: every instance of the
\* chunk is explained in order and the list is written to the process's file.
WorkerRun(k) ==
    /\ k \in 1..Len(processes)
    /\ processes[k].state = "running"
    /\ processes' = [processes EXCEPT ![k].state = "terminated",
                                      ![k].out = processes[k].dataset]
    /\ UNCHANGED <<X, n_workers, items_for_worker, start, end, i, workers, ji, dpc>>
    /\ UNCHANGED nondvars

\* explain_workers_stable when explain_instance_stable raises (line 510): the
\* exception ends the process before the file of line 514 is written.
WorkerRaise(k) ==
    /\ k \in 1..Len(processes)
    /\ processes[k].state = "running"
    /\ processes[k].dataset # <<>>
    /\ processes' = [processes EXCEPT ![k].state = "terminated"]
    /\ UNCHANGED <<X, n_workers, items_for_worker, start, end, i, workers, ji, dpc>>
    /\ UNCHANGED nondvars

\* One iteration of the loop of lines 497-498. processes[ji].join() blocks
\* until that process has terminated; indexing past the list raises IndexError,
\* and reading workers before it is bound raises UnboundLocalError.
Join ==
    /\ dpc = "join"
    /\ IF workers = Unbound
       THEN /\ dpc' = "raised"
            /\ UNCHANGED <<ji, processes>>
       ELSE /\ JoinRange(ji, workers)
            /\ IF ji + 1 > Len(processes)
               THEN /\ dpc' = "raised"
                    /\ UNCHANGED <<ji, processes>>
               ELSE /\ processes[ji + 1].state = "terminated"
                    /\ processes' = [processes EXCEPT ![ji + 1].joined = TRUE]
                    /\ ji' = ji + 1
                    /\ UNCHANGED dpc
    /\ UNCHANGED <<X, n_workers, items_for_worker, start, end, i, workers>>
    /\ UNCHANGED nondvars

\* The join loop is exhausted: line 499, the dispatcher returns.
Return ==
    /\ dpc = "join"
    /\ workers # Unbound
    /\ ~JoinRange(ji, workers)
    /\ dpc' = "done"
    /\ UNCHANGED <<X, n_workers, items_for_worker, start, end, i, processes, workers, ji>>
    /\ UNCHANGED nondvars

DispatchNext ==
    \/ Spawn
    \/ \E k \in 1..MaxW : WorkerRun(k)
    \/ \E k \in 1..MaxW : WorkerRaise(k)
    \/ Join
    \/ Return


DispatchIdle ==
    /\ X = <<>>
    /\ n_workers = 1
    /\ items_for_worker = 0
    /\ start = 0
    /\ end = 0
    /\ i = 0
    /\ processes = <<>>
    /\ workers = Unbound
    /\ ji = 0
    /\ dpc = "idle"

(***************************************************************************)
(* The specifications.                                                     *)
(***************************************************************************)
InitDispatch == DispatchInit /\ EngineIdle /\ ExemplarIdle /\ ExplainIdle /\ WeightsIdle

SpecDispatch == InitDispatch /\ [][DispatchNext]_vars

InitExemplar == ExemplarInit /\ DispatchIdle /\ ExplainIdle /\ WeightsIdle

SpecExemplar == InitExemplar /\ [][ExemplarNext]_vars

InitExplain == ExplainInit /\ DispatchIdle /\ WeightsIdle

SpecExplain == InitExplain /\ [][ExplainNext]_vars

InitWeights ==
    WeightsInit /\ DispatchIdle /\ EngineIdle /\ ExemplarIdle /\ ExplainIdle

SpecWeights == InitWeights /\ [][WeightsNext]_vars

(***************************************************************************)
(* Claims about explain_set_instances_stable.                              *)
(***************************************************************************)
Datasets == [k \in 1..Len(processes) |-> processes[k].dataset]

\* C1: the dispatcher returns only after every worker process it started has
\* terminated, the last one spawned included (join barrier).
C1_JoinBarrier ==
    dpc = "done" => \A k \in 1..Len(processes) : processes[k].state = "terminated"

\* C2: at most n_workers chunks are handed out; chunk k is the contiguous slice
\* of X of size ceil(N/W) starting at (k-1)*ceil(N/W), the last one possibly
\* smaller but never empty; the chunks concatenated in worker order are X; and
\* dispatching goes on only while the cumulative end index is below N and stops
\* once it reaches or exceeds N.
C2_ChunksPartitionX ==
    LET c == CeilDiv(Len(X), n_workers)
        m == Len(processes)
    IN  /\ m <= n_workers
        /\ \A k \in 1..m :
              /\ processes[k].index = k - 1
              /\ processes[k].dataset = SubSeq(X, (k - 1) * c + 1, Min(k * c, Len(X)))
              /\ Len(processes[k].dataset) >= 1
              /\ k < m => Len(processes[k].dataset) = c
        /\ dpc = "dispatch" => m * c < Len(X)
        /\ dpc # "dispatch" =>
              /\ m >= 1
              /\ m * c >= Len(X)
              /\ ConcatAll(Datasets) = X

\* C2 witness: the dispatcher has finished after handing out fewer than
\* n_workers chunks, several of them, the last one smaller than the others.
C2_Witness ==
    /\ dpc = "done"
    /\ Len(processes) >= 2
    /\ Len(processes) < n_workers
    /\ Len(processes[Len(processes)].dataset) < items_for_worker
    /\ ConcatAll(Datasets) = X

\* C4: the dispatcher completes without raising for every N >= 1 and W >= 1:
\* the join loop never indexes a process that was not created.
C4_NeverRaises == dpc # "raised"

(***************************************************************************)
(* Claims about the exemplar selectors.                                    *)
(***************************************************************************)
Selected == xpc \in {"selected", "reported"}

\* The two partitions of the reference population, x removed from the first.
ExPart == RemoveX(ExemplarVals(Population, superT, x), x)

CexPart == CexemplarVals(Population, superT, x)

\* rows are m members of part, nearest to xx first, and no member of part left
\* out is nearer to xx than one of rows.
IsNearest(rows, part, xx, m) ==
    /\ Len(rows) = m
    /\ \A a, b \in 1..m : a < b => SqDist(xx, rows[a]) <= SqDist(xx, rows[b])
    /\ \E f \in [1..m -> 1..Len(part)] :
          /\ \A a, b \in 1..m : a # b => f[a] # f[b]
          /\ \A a \in 1..m : part[f[a]] = rows[a]
          /\ \A j \in 1..Len(part) :
                (\A a \in 1..m : f[a] # j) =>
                    \A a \in 1..m : SqDist(xx, rows[a]) <= SqDist(xx, part[j])

\* C7: in both selectors no returned exemplar equals x on every feature, every
\* returned exemplar is a member of the population in the leaf of x, and every
\* returned counter-exemplar is a member of the population in another leaf.
C7_ExemplarLeaves ==
    Selected =>
        /\ \A k \in 1..Len(sel.ex.rows) :
              /\ \E f \in Features : sel.ex.rows[k][f] # x[f]
              /\ Apply(superT, sel.ex.rows[k]) = Apply(superT, x)
              /\ \E j \in 1..Len(Population) : Population[j] = sel.ex.rows[k]
        /\ \A k \in 1..Len(sel.cex.rows) :
              /\ Apply(superT, sel.cex.rows[k]) # Apply(superT, x)
              /\ \E j \in 1..Len(Population) : Population[j] = sel.cex.rows[k]

\* C7 witness: x itself is in the population and in the leaf it is compared
\* with, and the selector returned exemplars and counter-exemplars.
C7_Witness ==
    /\ xpc = "selected"
    /\ \E j \in 1..Len(Population) : Population[j] = x
    /\ Len(sel.ex.rows) >= 1
    /\ Len(sel.cex.rows) >= 1

\* C7 witness of the binary selector: x is in the population and exemplars
\* are returned.
C7_WitnessBinary ==
    /\ xpc = "selected"
    /\ IsBinary(binary)
    /\ \E j \in 1..Len(Population) : Population[j] = x
    /\ Len(sel.ex.rows) >= 1

\* C8: in both selectors, when both partitions are empty both sets are absent
\* (reported as 'None'); when exactly one is empty it is absent and the other
\* is returned in full, nearest to x first.
C8_Degenerate ==
    /\ (Selected /\ Len(ExPart) = 0 /\ Len(CexPart) = 0) =>
          sel.ex.absent /\ sel.cex.absent
    /\ (Selected /\ Len(ExPart) = 0 /\ Len(CexPart) > 0) =>
          /\ sel.ex.absent
          /\ ~sel.cex.absent
          /\ IsNearest(sel.cex.rows, CexPart, x, Len(CexPart))
    /\ (Selected /\ Len(ExPart) > 0 /\ Len(CexPart) = 0) =>
          /\ sel.cex.absent
          /\ ~sel.ex.absent
          /\ IsNearest(sel.ex.rows, ExPart, x, Len(ExPart))
    /\ (xpc = "reported" /\ (Len(ExPart) = 0 \/ Len(CexPart) = 0)) =>
          /\ exp_exemplars.none = (Len(ExPart) = 0)
          /\ exp_cexemplars.none = (Len(CexPart) = 0)

\* C8, the binary selector alone: the degenerate partitions as C8 states them.
C8_DegenerateBinary == IsBinary(binary) => C8_Degenerate

\* C9: when both partitions are non-empty, each selector returns two sets that
\* are not absent, of the same size m (the requested n when both partitions have
\* n members, else the size of the smaller), each the m members of its partition
\* nearest to x, nearest first.
C9_SymmetricCap ==
    (Selected /\ Len(ExPart) > 0 /\ Len(CexPart) > 0) =>
        LET m == IF Len(ExPart) >= exemplar_num /\ Len(CexPart) >= exemplar_num
                 THEN exemplar_num
                 ELSE Min(Len(ExPart), Len(CexPart))
        IN  /\ ~sel.ex.absent
            /\ ~sel.cex.absent
            /\ IsNearest(sel.ex.rows, ExPart, x, m)
            /\ IsNearest(sel.cex.rows, CexPart, x, m)

\* C9, the n-ary selector alone.
C9_SymmetricCapSupert == ~IsBinary(binary) => C9_SymmetricCap

(***************************************************************************)
(* Claims about explain_instance_stable.                                   *)
(***************************************************************************)
\* The Merged Tree exists: the pipeline is past the merge step.
Merged == epc \in {"merged", "ruled", "done"}

\* The Merged Tree's prediction for the explained instance differs from the
\* black box's prediction for it.
Mismatch == Predict(superT, x) # BBPredict(x_in)

\* C3: with extreme_fidelity enabled, in every merge mode and with or without
\* an encoder, a Merged Tree whose prediction for the instance differs from the
\* black box's makes the call raise before rule extraction and assembly: the
\* pipeline never goes on past the merge, and no Explanation is returned.
C3_ExtremeFidelityRaises ==
    (extreme_fidelity /\ Merged /\ Mismatch) => FALSE

\* C3, the modes in which the check of lines 301-304 is made.
C3_ExtremeFidelityNary ==
    (binary \in {"nary", "binary_from_nari"} /\ extreme_fidelity /\ Merged) => ~Mismatch

\* C5: with multi_label the call raises at once: no collaborator is called, no
\* tree is fit and no Explanation is returned.
C5_MultiLabelRaises ==
    multi_label =>
        /\ epc \in {"start", "raised"}
        /\ calls = {}
        /\ fits = <<>>
        /\ ~exp.made
        /\ Z_list = <<>>

\* C5 witness: a multi-label call has raised.
C5_Witness == multi_label /\ epc = "raised"

\* The pooled neighborhood of all runs, as the Merged Tree is given it, and its
\* black-box labels.
PooledZ == IF binary = "binary_from_bb" THEN ConcatAll(Z_sampled) ELSE ConcatAll(Z_list)

PooledYb == ConcatAll(Yb_list)

\* C6: in every merge mode the fidelity of the returned Explanation is 1.0 if
\* and only if the Merged Tree predicts the black-box label of every record of
\* the pooled neighborhood of all runs.
C6_FidelityOneIffAgree ==
    epc = "done" =>
        (IsOne(exp.fidelity) <=>
            \A k \in 1..Len(PooledZ) : Predict(exp.dt, PooledZ[k]) = PooledYb[k])

\* C6, the modes that score the tree against all the pooled black-box labels.
C6_FidelityDtsNary ==
    (epc = "done" /\ binary \in {"nary", "binary_from_dts"}) =>
        (IsOne(exp.fidelity) <=>
            \A k \in 1..Len(PooledZ) : Predict(exp.dt, PooledZ[k]) = PooledYb[k])

\* C10: in mode binary_from_bb no per-run tree is fit and exactly one tree is
\* fit, on the concatenation of all the neighborhoods and of all the black-box
\* label vectors; the fidelity, the rules and the Explanation use that tree.
C10_OnePooledFit ==
    (binary = "binary_from_bb" /\ Merged) =>
        /\ Len(fits) = 1
        /\ fits[1].kind = "pooled"
        /\ fits[1].data = ConcatAll(Z_sampled)
        /\ fits[1].labels = ConcatAll(Yb_list)
        /\ \A k \in 1..runs : ~dt_list[k].fitted
        /\ epc = "done" => exp.dt = superT

\* C10 with a discretizer configured: lines 232-233 pool the data and labels.
C10_OnePooledFitDiscretized ==
    discretize => C10_OnePooledFit

\* Two tasks that run at the same time in the pool on the same surrogate
\* object.
SharedSurrogate ==
    \E j \in Running : \E k \in Running : j # k /\ tasks[j].t = tasks[k].t

\* Every result the pool has collected sits at the position of its run and is
\* the tree fit on that run's neighborhood and labels.
PositionPreserved ==
    \A k \in 1..Len(dt_list) :
        dt_list[k].fitted =>
            /\ dt_list[k].data = Z_list[k]
            /\ dt_list[k].labels = Yb_list[k]

\* C11: the per-run fits that run concurrently share no mutable object: no two
\* tasks running at the same time use the same surrogate object, and whatever
\* the interleaving and the order of completion the k-th collected result is
\* the tree fit on run k's neighborhood and labels.
C11_NoSharedObject ==
    epc \in {"fitting", "merged", "ruled", "done", "raised"} =>
        /\ ~SharedSurrogate
        /\ PositionPreserved

\* The part of C11 that holds at the interface of the surrogate provider: the
\* results are collected by position, in whatever order the tasks complete.
C11_PositionPreserving ==
    epc \in {"fitting", "merged", "ruled", "done", "raised"} => PositionPreserved

\* The case of C11_PositionPreserving: two runs of different neighborhoods,
\* the second task returned before the first.
C11_WitnessOutOfOrder ==
    /\ epc = "fitting"
    /\ runs >= 2
    /\ Z_list[1] # Z_list[2]
    /\ dt_list[2].fitted
    /\ ~dt_list[1].fitted
    /\ tasks[1].state = "running"


\* The distances to row 0 of Z as it is.
RawDistances(Zm) == [k \in 1..Len(Zm) |-> <<SqDist(Zm[k], Zm[1]), 1>>]

\* The distances to row 0 of the min-max normalized Z: the squared distance of
\* the rows over the square of max - min (0/0 is nan).
NormalizedDistances(Zm) ==
    [k \in 1..Len(Zm) |->
        <<SqDist(Zm[k], Zm[1]), (MaxOf(Zm) - MinOf(Zm)) * (MaxOf(Zm) - MinOf(Zm))>>]

\* Z is already on the unit range: its minimum is 0 and its maximum is 1.
UnitRange(Zm) == MinOf(Zm) = 0 /\ MaxOf(Zm) = 1

\* C12: __calculate_weights__ skips the normalization and takes the raw
\* distances to row 0 exactly when the minimum of Z is 0 and its maximum is 1;
\* for every other Z it min-max normalizes Z before the distances are taken.
C12_SkipsExactlyOnUnitRange ==
    cwpc = "returned" =>
        IF UnitRange(cw_Z)
        THEN Zn = NoZn /\ distances = RawDistances(cw_Z)
        ELSE Zn = MinMax(cw_Z) /\ distances = NormalizedDistances(cw_Z)

\* What the test of line 120 does: the normalization is skipped when the
\* maximum of Z is 1 or its minimum is 0, and made only when neither holds.
C12_SkipsOnEitherBound ==
    cwpc = "returned" =>
        IF MaxOf(cw_Z) = 1 \/ MinOf(cw_Z) = 0
        THEN Zn = NoZn /\ distances = RawDistances(cw_Z)
        ELSE Zn = MinMax(cw_Z) /\ distances = NormalizedDistances(cw_Z)

\* The case C12 and the code differ on: a Z of minimum 0 and maximum above 1,
\* returned with its raw distances.
C12_WitnessSkipped ==
    /\ cwpc = "returned"
    /\ MinOf(cw_Z) = 0
    /\ MaxOf(cw_Z) > 1
    /\ Zn = NoZn
    /\ distances[2][1] > 0

\* The case the two agree on: a Z of minimum and maximum away from 0 and 1,
\* normalized.
C12_WitnessNormalized ==
    /\ cwpc = "returned"
    /\ MinOf(cw_Z) = 1
    /\ MaxOf(cw_Z) = 2
    /\ Zn # NoZn

====
